---- MODULE Spec2Model ----
(***************************************************************************)
(* home-assistant-findmy: the FindMy cache files are read in a polling     *)
(* loop, every entry is turned into a Device, compared with the last       *)
(* update remembered for its identity and, when it is new, published to    *)
(* the MQTT broker as three messages (config, attributes, state).          *)
(*                                                                         *)
(* Encoding of Python values:                                              *)
(*   None / a value x      <<>> / <<x>>                                    *)
(*   str                   a sequence of one-character tokens for device   *)
(*                         names and ids, a TLA+ string elsewhere          *)
(*   dict (JSON object)    a record with a field "keys", the set of keys   *)
(*                         the object has; a field whose key is not in     *)
(*                         "keys" holds a placeholder that is never read   *)
(*   coordinates           integers in units of 1/111111 degree, the unit  *)
(*                         in which get_lat_lng_approx(m) is m             *)
(***************************************************************************)
EXTENDS Integers, Sequences, FiniteSets, TLC

VARIABLES
    pc,                 \* position of the main thread
    exception,          \* the exception that ended the process, "" if none
    locations_param,    \* the value given to --locations
    locations,          \* what validate_param_locations returned
    force_sync,         \* the --force-sync flag
    known_locations,    \* global known_locations (insertion-ordered dict)
    device_updates,     \* global device_updates
    connects,           \* number of client.connect calls so far
    files,              \* Items.data and Devices.data: None for a file that FindMy
                        \* rewrites between reads, Some(content) for one left alone
    findmy_data_file,   \* send_location_data: the file being processed
    todo,               \* send_location_data: number of loaded entries not yet iterated
    device,             \* send_location_data: the Device of the last iteration
    device_update,      \* send_location_data: device_updates.get(...) of it
    sent,               \* messages given to client.publish by the last iteration
    announced,          \* history: ids that received a config message
    orphan_state,       \* history: ids whose state message came before any config
    no_fix,             \* history: identities whose last processed entry had no location
    published_from,     \* history: files a device was published from in this cycle
    loaded,             \* history: files loaded in this cycle
    rerun,              \* history: a pass has run to completion before this one
    connected,          \* the client's network thread holds a connection to the broker
    last_published,     \* history: per identity, (timeStamp, zone) of its last publish
    undelivered,        \* observer: identities whose last publish met no connection
    absent,             \* observer of the device AnyName: whether this pass has `seen`
                        \* it, the whole `passes` gone by without it since it was
                        \* published, and whether the entry processed last brought
                        \* it `back` after MaxAbsence passes away
    first_published,    \* observer: the (identity, timeStamp) of the first publish
                        \* of the device AnyName with a location
    call,               \* a function applied on its own, and its arguments
    result              \* what that function returned

\* the functions applied on their own
pure == <<call, result>>

\* An observer is None when it is switched off and Some(value) when it
\* records; it never influences the program.
observers == <<undelivered, absent, first_published>>

vars == <<pc, exception, locations_param, locations, force_sync, known_locations,
          device_updates, connects, files, findmy_data_file, todo, device,
          device_update, sent, announced, orphan_state, no_fix, published_from,
          loaded, rerun, connected, last_published, observers, pure>>

-----------------------------------------------------------------------------
(* Bounds and sample inputs *)

\* a snapshot file has at most MaxEntries entries
MaxEntries == 2

\* location timeStamps are 1..MaxTs
MaxTs == 2

DEFAULT_TOLERANCE == 70

None == <<>>

Some(x) == <<x>>

-----------------------------------------------------------------------------
(* get_device_id *)

LowerLetters ==
    <<"a","b","c","d","e","f","g","h","i","j","k","l","m",
      "n","o","p","q","r","s","t","u","v","w","x","y","z">>

UpperLetters ==
    <<"A","B","C","D","E","F","G","H","I","J","K","L","M",
      "N","O","P","Q","R","S","T","U","V","W","X","Y","Z">>

Digits == {"0","1","2","3","4","5","6","7","8","9"}

Range(s) == {s[k] : k \in DOMAIN s}

\* the characters \s matches, among the characters used here
Whitespace == {" ", "\t"}

\* str.lower() of one character
Lower(c) ==
    IF c \in Range(UpperLetters)
    THEN LowerLetters[CHOOSE k \in DOMAIN UpperLetters : UpperLetters[k] = c]
    ELSE IF c = "E-acute" THEN "e-acute" ELSE c

\* unidecode() of one character: ASCII is kept, the others are transliterated
UnidecodeChar(c) ==
    CASE c = "e-acute" -> <<"e">>
      [] c = "E-acute" -> <<"E">>
      [] c = "sharp-s" -> <<"s", "s">>
      [] OTHER -> <<c>>

RECURSIVE unidecode(_)
unidecode(s) ==
    IF s = <<>> THEN <<>> ELSE UnidecodeChar(Head(s)) \o unidecode(Tail(s))

\* re.sub(r'[\s-]', '_', name)
SubSpaceHyphen(name) ==
    [k \in DOMAIN name |-> IF name[k] \in Whitespace \cup {"-"} THEN "_" ELSE name[k]]

IdChar(c) == c \in Digits \cup Range(LowerLetters) \cup Range(UpperLetters) \cup {"_", "-"}

\* re.sub('[^0-9a-zA-Z_-]+', '', s)
StripNonId(s) == SelectSeq(s, IdChar)

\* line 78 without re.sub(r'_+', '_', ...)
CollapseUnderscores_Not(s) == s

\* re.sub(r'_+', '_', s)
RECURSIVE CollapseUnderscores(_)
CollapseUnderscores(s) ==
    IF Len(s) < 2 THEN s
    ELSE IF s[1] = "_" /\ s[2] = "_" THEN CollapseUnderscores(Tail(s))
    ELSE <<s[1]>> \o CollapseUnderscores(Tail(s))

get_device_id(name) ==
    LET device_id == unidecode([k \in DOMAIN name |-> Lower(SubSpaceHyphen(name)[k])])
    IN  CollapseUnderscores(StripNonId(device_id))

\* f"{self.name} ({self.id})"
UpdatesIdentifier(name) == <<name, get_device_id(name)>>

-----------------------------------------------------------------------------
(* get_source_type, get_time, get_lat_lng_approx, get_location_name *)

get_source_type(apple_position_type) ==
    CASE apple_position_type = Some("crowdsourced") -> "gps"
      [] apple_position_type = Some("safeLocation") -> "gps"
      [] apple_position_type = Some("Wifi") -> "router"
      [] OTHER -> "gps"

\* str(datetime.fromtimestamp(timestamp / 1000)): the datetime, by its
\* whole seconds and microseconds
get_time(timestamp) ==
    IF timestamp = None THEN "unknown"
    ELSE [seconds |-> timestamp[1] \div 1000, microseconds |-> (timestamp[1] % 1000) * 1000]

\* meters / 111111 degrees, which is `meters` coordinate units
get_lat_lng_approx(meters) == meters

Abs(x) == IF x < 0 THEN -x ELSE x

\* location['tolerance'] or DEFAULT_TOLERANCE
ToleranceOrDefault(tolerance) == IF tolerance = 0 THEN DEFAULT_TOLERANCE ELSE tolerance

\* math.isclose(a, b, abs_tol=t) raises ValueError for a negative tolerance;
\* the default rel_tol of 1e-9 is below one coordinate unit
IsClose(a, b, abs_tol) == Abs(a - b) <= abs_tol

\* the result of get_location_name: [raised, value]
RECURSIVE LocationLoop(_, _, _)
LocationLoop(kl, k, pos) ==
    IF k > Len(kl) THEN [raised |-> "", value |-> "not_home"]
    ELSE LET tolerance == get_lat_lng_approx(ToleranceOrDefault(kl[k].tolerance))
         IN  IF tolerance < 0 THEN [raised |-> "ValueError", value |-> ""]
             ELSE IF IsClose(kl[k].latitude, pos[1], tolerance)
                     /\ IsClose(kl[k].longitude, pos[2], tolerance)
                  THEN [raised |-> "", value |-> kl[k].name]
                  ELSE LocationLoop(kl, k + 1, pos)

\* lines 94-99 without the test of line 91
get_location_name_NoEmptyCheck(kl, pos) == LocationLoop(kl, 1, pos)

get_location_name(kl, pos) ==
    IF Len(kl) = 0 THEN [raised |-> "", value |-> "unknown"]
    ELSE LocationLoop(kl, 1, pos)

-----------------------------------------------------------------------------
(* class Device *)

\* math.sqrt, for the perfect squares used here
Sqrt(n) == CHOOSE r \in 0..n : r * r <= n /\ n < (r + 1) * (r + 1)

\* the first key of `required`, in order, that the object lacks; 0 if none
RECURSIVE FirstMissing(_, _, _)
FirstMissing(keys, required, k) ==
    IF k > Len(required) THEN 0
    ELSE IF required[k] \notin keys THEN k
    ELSE FirstMissing(keys, required, k + 1)

NoLocationFields ==
    [source_type |-> None, latitude |-> None, longitude |-> None, address |-> None,
     accuracy |-> None, location_name |-> None, last_update |-> None]

\* lines 112-118; [raised, value]
DeviceLocation(raw, location, kl) ==
    IF FirstMissing(location.keys, <<"latitude", "longitude">>, 1) # 0
       \/ "address" \notin raw.keys
       \/ FirstMissing(location.keys, <<"horizontalAccuracy", "verticalAccuracy">>, 1) # 0
    THEN [raised |-> "KeyError", value |-> NoLocationFields]
    ELSE LET zone == get_location_name(kl, <<location.latitude, location.longitude>>)
         IN  IF zone.raised # ""
             THEN [raised |-> zone.raised, value |-> NoLocationFields]
             ELSE IF "timeStamp" \notin location.keys
             THEN [raised |-> "KeyError", value |-> NoLocationFields]
             ELSE [raised |-> "",
                   value |->
                     [source_type |->
                          Some(get_source_type(IF "positionType" \in location.keys
                                               THEN Some(location.positionType) ELSE None)),
                      latitude |-> Some(location.latitude),
                      longitude |-> Some(location.longitude),
                      address |-> Some(raw.address),
                      accuracy |-> Some(Sqrt(location.horizontalAccuracy * location.horizontalAccuracy
                                    + location.verticalAccuracy * location.verticalAccuracy)),
                      location_name |-> Some(zone.value),
                      last_update |-> Some(location.timeStamp)]]

\* Device.__init__; [raised, value], value being None when it raised
Device(raw, kl) ==
    IF FirstMissing(raw.keys, <<"name", "batteryStatus">>, 1) # 0
    THEN [raised |-> "KeyError", value |-> None]
    ELSE LET loc == IF raw.location = None
                    THEN [raised |-> "", value |-> NoLocationFields]
                    ELSE DeviceLocation(raw, raw.location[1], kl)
         IN  IF loc.raised # ""
             THEN [raised |-> loc.raised, value |-> None]
             ELSE [raised |-> "",
                   value |-> Some(
                     [name |-> raw.name,
                      battery_level |-> IF "batteryLevel" \in raw.keys
                                        THEN Some(raw.batteryLevel) ELSE None,
                      battery_status |-> raw.batteryStatus,
                      id |-> get_device_id(raw.name),
                      updates_identifier |-> UpdatesIdentifier(raw.name)]
                     @@ loc.value)]

-----------------------------------------------------------------------------
(* send_location_data and publish_to_mqtt *)

\* device_updates.get(key)
Get(dict, key) == IF key \in DOMAIN dict THEN Some(dict[key]) ELSE None

\* a dict holding the one key only
Put_OnlyKey(dict, key, value) == [k \in {key} |-> value]

\* dict[key] = value
Put(dict, key, value) ==
    [k \in DOMAIN dict \cup {key} |-> IF k = key THEN value ELSE dict[k]]

\* line 131 taken back when the client has no connection
StoreUpdate_WhenConnected(updates, d) ==
    IF connected
    THEN Put(updates, d.updates_identifier, <<d.last_update, d.location_name>>)
    ELSE updates

\* line 131: device_updates[device.updates_identifier] = (last_update, location_name)
StoreUpdate(updates, d) ==
    Put(updates, d.updates_identifier, <<d.last_update, d.location_name>>)

\* line 128 with the comparison inverted
SkipDevice_Inverted(sync, update, last_update) ==
    ~sync /\ update # None /\ Len(update[1]) > 0 /\ update[1][1] # last_update

\* line 128 without `not force_sync`
SkipDevice_IgnoresForceSync(sync, update, last_update) ==
    update # None /\ Len(update[1]) > 0 /\ update[1][1] = last_update

\* line 128 without the comparison of the timestamps
SkipDevice_AnyEntry(sync, update, last_update) ==
    ~sync /\ update # None /\ Len(update[1]) > 0

\* line 128 with a stored timestamp of None never counting as equal
SkipDevice_NoneNeverEqual(sync, update, last_update) ==
    ~sync /\ update # None /\ Len(update[1]) > 0 /\ update[1][1] # None
          /\ update[1][1] = last_update

\* line 128: the condition of `continue`
SkipDevice(sync, update, last_update) ==
    ~sync /\ update # None /\ Len(update[1]) > 0 /\ update[1][1] = last_update

DeviceTopic(d) == <<"homeassistant", "device_tracker", d.id>>

DeviceConfig(d) ==
    [unique_id |-> d.id,
     state_topic |-> Append(DeviceTopic(d), "state"),
     json_attributes_topic |-> Append(DeviceTopic(d), "attributes"),
     device |-> [identifiers |-> d.id, manufacturer |-> "Apple", name |-> d.name],
     source_type |-> d.source_type,
     payload_home |-> "home",
     payload_not_home |-> "not_home",
     payload_reset |-> "unknown"]

\* `if device.battery_level:` is false for None and for 0
DeviceAttributes(d) ==
    LET attributes ==
            [latitude |-> d.latitude,
             longitude |-> d.longitude,
             gps_accuracy |-> d.accuracy,
             address |-> d.address,
             battery_status |-> d.battery_status,
             last_update_timestamp |-> d.last_update,
             last_update |-> get_time(d.last_update),
             provider |-> "FindMy (muehlt/home-assistant-findmy)"]
    IN  IF d.battery_level # None /\ d.battery_level[1] # 0
        THEN attributes @@ [battery_level |-> d.battery_level[1]]
        ELSE attributes

\* lines 165-167 with the state message published first
publish_to_mqtt_StateFirst(d) ==
    <<[topic |-> Append(DeviceTopic(d), "state"), payload |-> d.location_name],
      [topic |-> Append(DeviceTopic(d), "config"), payload |-> DeviceConfig(d)],
      [topic |-> Append(DeviceTopic(d), "attributes"), payload |-> DeviceAttributes(d)]>>

\* the client.publish calls of publish_to_mqtt, in order
publish_to_mqtt(d) ==
    <<[topic |-> Append(DeviceTopic(d), "config"), payload |-> DeviceConfig(d)],
      [topic |-> Append(DeviceTopic(d), "attributes"), payload |-> DeviceAttributes(d)],
      [topic |-> Append(DeviceTopic(d), "state"), payload |-> d.location_name]>>

-----------------------------------------------------------------------------
(* Sample inputs: snapshot entries and named-location files *)

\* two device names, with the ids "tag" and "key_1"
Names == {<<"T", "a", "g">>, <<"K", "e", "y", " ", "1">>}

\* where the device is at timeStamp t: inside the zones of HomeLocations at
\* odd timeStamps, outside at even ones
PositionAt(t) == IF t % 2 = 1 THEN <<10, 10>> ELSE <<200, 10>>

FileNames == {"Items", "Devices"}

LocationKeys ==
    {"positionType", "latitude", "longitude", "horizontalAccuracy",
     "verticalAccuracy", "timeStamp"}

RawLocation(keys, pos, ts) ==
    [keys |-> keys, positionType |-> "Wifi", latitude |-> pos[1], longitude |-> pos[2],
     horizontalAccuracy |-> 3, verticalAccuracy |-> 4, timeStamp |-> ts]

RawEntry(keys, name, location) ==
    [keys |-> keys, name |-> name, batteryLevel |-> 1, batteryStatus |-> "Normal",
     address |-> "address", location |-> location]

EntryKeys == {"name", "batteryLevel", "batteryStatus", "address"}

WellFormedEntries ==
    {RawEntry(EntryKeys, n, None) : n \in Names}
    \cup {RawEntry(EntryKeys, n, Some(RawLocation(LocationKeys, PositionAt(t), t))) :
            n \in Names, t \in 1..MaxTs}

AnyName == CHOOSE n \in Names : TRUE

\* an entry without name, one without batteryStatus, one whose location has no timeStamp
MalformedEntries ==
    {RawEntry(EntryKeys \ {"name"}, AnyName, None),
     RawEntry(EntryKeys \ {"batteryStatus"}, AnyName, None),
     RawEntry(EntryKeys, AnyName, Some(RawLocation(LocationKeys \ {"timeStamp"}, PositionAt(1), 1)))}

RawEntries == WellFormedEntries \cup MalformedEntries

SeqsUpTo(S, n) == UNION {[1..k -> S] : k \in 0..n}

\* the contents a snapshot file can have
FileContents == SeqsUpTo(RawEntries, MaxEntries)

\* FindMy rewrites both files between the reads
ChangingFiles == [f \in FileNames |-> None]

\* snapshots that are left alone, of at most MaxEntries entries in all
FixedFiles ==
    {[f \in FileNames |-> Some(c[f])] :
        c \in {x \in [FileNames -> FileContents] :
                 Len(x["Items"]) + Len(x["Devices"]) <= MaxEntries}}

JsonFloat(v) == [type |-> "float", value |-> v]

JsonInt(v) == [type |-> "int", value |-> v]

Zone(latitude, longitude, tolerance) ==
    [type |-> "object", latitude |-> latitude, longitude |-> longitude, tolerance |-> tolerance]

\* two zones that both contain PositionAt(1); the first has tolerance 0
HomeLocations ==
    [type |-> "object",
     items |-> <<[name |-> "home", value |-> Zone(JsonFloat(0), JsonFloat(0), JsonInt(0))],
                 [name |-> "garden", value |-> Zone(JsonFloat(20), JsonFloat(20), JsonInt(30))]>>]

NegativeLocations ==
    [type |-> "object",
     items |-> <<[name |-> "home", value |-> Zone(JsonFloat(0), JsonFloat(0), JsonInt(0 - 50))]>>]

IntLatitudeLocations ==
    [type |-> "object",
     items |-> <<[name |-> "home", value |-> Zone(JsonInt(0), JsonFloat(0), JsonInt(50))]>>]

FloatToleranceLocations ==
    [type |-> "object",
     items |-> <<[name |-> "home", value |-> Zone(JsonFloat(0), JsonFloat(0), JsonFloat(50))]>>]

\* the --locations option: absent, or a path and what is found there
LocationsParams ==
    {[path |-> "", isfile |-> FALSE, json |-> None],
     [path |-> "locations.json", isfile |-> FALSE, json |-> None],
     [path |-> "locations.json", isfile |-> TRUE, json |-> None],
     [path |-> "locations.json", isfile |-> TRUE, json |-> Some([type |-> "array", items |-> <<>>])],
     [path |-> "locations.json", isfile |-> TRUE, json |-> Some(HomeLocations)],
     [path |-> "locations.json", isfile |-> TRUE, json |-> Some(NegativeLocations)],
     [path |-> "locations.json", isfile |-> TRUE, json |-> Some(IntLatitudeLocations)],
     [path |-> "locations.json", isfile |-> TRUE, json |-> Some(FloatToleranceLocations)]}

-----------------------------------------------------------------------------
(* validate_param_locations, set_known_locations *)

\* lines 218-223, without the check of the tolerance
ValidLocation_NoToleranceCheck(location) ==
    /\ location.type = "object"
    /\ location.latitude.type = "float"
    /\ location.longitude.type = "float"

\* the checks of lines 218-225 on one item of the JSON object
ValidLocation(location) ==
    /\ location.type = "object"
    /\ location.latitude.type = "float"
    /\ location.longitude.type = "float"
    /\ location.tolerance.type = "int"

\* [raised, value]: value is None for the {} returned without a path, else
\* Some(locations) for the tuple (path, locations)
validate_param_locations(param) ==
    IF param.path = "" THEN [raised |-> "", value |-> None]
    ELSE IF ~param.isfile \/ param.json = None \/ param.json[1].type # "object"
    THEN [raised |-> "BadParameter", value |-> None]
    ELSE IF \E k \in DOMAIN param.json[1].items : ~ValidLocation(param.json[1].items[k].value)
    THEN [raised |-> "BadParameter", value |-> None]
    ELSE [raised |-> "", value |-> Some(param.json[1].items)]

\* the dict that becomes known_locations, with the numbers the zones hold
set_known_locations(items) ==
    [k \in DOMAIN items |->
        [name |-> items[k].name,
         latitude |-> items[k].value.latitude.value,
         longitude |-> items[k].value.longitude.value,
         tolerance |-> items[k].value.tolerance.value]]

-----------------------------------------------------------------------------
(* The process: click's option parsing, main, scan_cache *)

Start ==
    /\ pc = "cli"
    /\ exception = ""
    /\ locations_param \in LocationsParams
    /\ locations = None
    /\ force_sync \in BOOLEAN
    /\ known_locations = <<>>
    /\ device_updates = <<>>
    /\ connects = 0
    /\ findmy_data_file = "Items"
    /\ todo = 0
    /\ device = None
    /\ device_update = None
    /\ sent = <<>>
    /\ announced = {}
    /\ orphan_state = {}
    /\ no_fix = {}
    /\ published_from = {}
    /\ loaded = {}
    /\ rerun = FALSE
    /\ connected = FALSE
    /\ last_published = <<>>
    /\ call = None
    /\ result = None

ObserversOff == undelivered = None /\ absent = None /\ first_published = None

Init == Start /\ files = ChangingFiles /\ ObserversOff

\* click runs the --locations callback before main; BadParameter ends the process
ValidateParamLocations ==
    /\ pc = "cli"
    /\ LET r == validate_param_locations(locations_param)
       IN  IF r.raised # ""
           THEN /\ pc' = "exit"
                /\ exception' = r.raised
                /\ UNCHANGED locations
           ELSE /\ pc' = "main"
                /\ locations' = r.value
                /\ UNCHANGED exception
    /\ UNCHANGED <<locations_param, force_sync, known_locations, device_updates, connects,
                   files, findmy_data_file, todo, device, device_update, sent, announced,
                   orphan_state, no_fix, published_from, loaded, rerun, connected,
                   last_published, observers, pure>>

\* main, lines 275-277: connect_broker, then set_known_locations when
\* main without the call of connect_broker
Main_NoConnect ==
    /\ pc = "main"
    /\ pc' = "call"
    /\ known_locations' = IF locations # None
                          THEN set_known_locations(locations[1])
                          ELSE known_locations
    /\ UNCHANGED <<exception, locations_param, locations, force_sync, device_updates,
                   connects, files, findmy_data_file, todo, device, device_update, sent,
                   announced, orphan_state, no_fix, published_from, loaded, rerun,
                   connected, last_published, observers, pure>>

\* `locations` is truthy; client.connect raises when the broker refuses
Main ==
    /\ pc = "main"
    /\ connects' = connects + 1
    /\ \E refused \in BOOLEAN :
        IF refused
        THEN /\ pc' = "exit"
             /\ exception' = "ConnectionRefusedError"
             /\ UNCHANGED <<known_locations, connected>>
        ELSE /\ pc' = "call"
             /\ connected' = TRUE
             /\ known_locations' = IF locations # None
                                   THEN set_known_locations(locations[1])
                                   ELSE known_locations
             /\ UNCHANGED exception
    /\ UNCHANGED <<locations_param, locations, force_sync, device_updates, files,
                   findmy_data_file, todo, device, device_update, sent, announced,
                   orphan_state, no_fix, published_from, loaded, rerun, last_published,
                   observers, pure>>

\* The list load_data returns is only read by the for loop, entry by entry.
\* For a file that FindMy rewrites between reads the list is an input: its
\* length is drawn when the file is read and each entry when the loop reaches
\* it.  For a file left alone the list is the file's content.
load_data(f) ==
    IF files[f] = None THEN 0..MaxEntries ELSE {Len(files[f][1])}

\* the entries the for loop can find at its next position
NextEntries ==
    IF files[findmy_data_file] = None THEN RawEntries
    ELSE {files[findmy_data_file][1][Len(files[findmy_data_file][1]) - todo + 1]}

\* send_location_data is called and load_data reads the file (lines 179/180,
\* 125); the locals of the call are fresh
LoadData ==
    /\ pc = "call"
    /\ pc' = "for"
    /\ todo' \in load_data(findmy_data_file)
    /\ device' = None
    /\ device_update' = None
    /\ sent' = <<>>
    /\ loaded' = loaded \cup {findmy_data_file}
    /\ UNCHANGED <<exception, locations_param, locations, force_sync, known_locations,
                   device_updates, connects, files, findmy_data_file, announced,
                   orphan_state, no_fix, published_from, rerun, connected,
                   last_published, observers, pure>>

\* the ids whose state message in `messages` has no config message before it
RECURSIVE Orphans(_, _)
Orphans(messages, configured) ==
    IF messages = <<>> THEN {}
    ELSE LET m == Head(messages)
         IN  (IF m.topic[4] = "state" /\ m.topic[3] \notin configured THEN {m.topic[3]} ELSE {})
             \cup Orphans(Tail(messages),
                          IF m.topic[4] = "config" THEN configured \cup {m.topic[3]}
                          ELSE configured)

ConfigIds(messages) ==
    {messages[k].topic[3] : k \in {j \in DOMAIN messages : messages[j].topic[4] = "config"}}

\* the payload client.publish was given for the topic ending in `kind`
Payload(messages, kind) ==
    messages[CHOOSE j \in DOMAIN messages : messages[j].topic[4] = kind].payload

\* the longest absence, in passes, that is counted
MaxAbsence == 2

\* the identity was processed: the history of publishes and the observers
Observed(d, messages) ==
    LET key == d.updates_identifier
    IN  /\ last_published' =
             IF messages = <<>> THEN last_published
             ELSE [k \in DOMAIN last_published \cup {key} |->
                     IF k = key
                     THEN <<Payload(messages, "attributes").last_update_timestamp,
                            Payload(messages, "state")>>
                     ELSE last_published[k]]
        /\ undelivered' =
             IF undelivered = None \/ messages = <<>> THEN undelivered
             ELSE Some(IF connected THEN undelivered[1] \ {key}
                       ELSE undelivered[1] \cup {key})
        /\ absent' =
             IF absent = None THEN None
             ELSE IF d.name = AnyName
             THEN Some([seen |-> TRUE, passes |-> 0,
                        back |-> absent[1].passes >= MaxAbsence])
             ELSE Some([absent[1] EXCEPT !.back = FALSE])
        /\ first_published' =
             IF /\ first_published = Some(None)
                /\ messages # <<>>
                /\ d.name = AnyName
                /\ d.last_update # None
             THEN Some(Some(<<key, d.last_update>>))
             ELSE first_published

\* lines 127-132 for the Device d
Iteration(d) ==
    \E update \in {Get(device_updates, d.updates_identifier)} :
    \E skip \in {SkipDevice(force_sync, update, d.last_update)} :
    \E messages \in {IF skip THEN <<>> ELSE publish_to_mqtt(d)} :
        /\ device' = Some(d)
        /\ device_update' = update
        /\ device_updates' =
             IF skip THEN device_updates ELSE StoreUpdate(device_updates, d)
        /\ sent' = messages
        /\ announced' = announced \cup ConfigIds(messages)
        /\ orphan_state' = orphan_state \cup Orphans(messages, announced)
        /\ no_fix' = IF d.last_update = None
                     THEN no_fix \cup {d.updates_identifier}
                     ELSE no_fix \ {d.updates_identifier}
        /\ published_from' = IF skip THEN published_from
                             ELSE published_from \cup {findmy_data_file}
        /\ todo' = todo - 1
        /\ Observed(d, messages)
        /\ UNCHANGED <<pc, exception>>

\* one iteration of the for loop of send_location_data (lines 125-132); an
\* exception of Device() leaves send_location_data, scan_cache and main
ForDevice ==
    /\ pc = "for"
    /\ todo > 0
    /\ \E raw \in NextEntries :
       \E r \in {Device(raw, known_locations)} :
        IF r.raised # ""
        THEN /\ pc' = "exit"
             /\ exception' = r.raised
             /\ device' = None
             /\ device_update' = None
             /\ sent' = <<>>
             /\ UNCHANGED <<todo, device_updates, announced, orphan_state, no_fix,
                            published_from, last_published, observers>>
        ELSE Iteration(r.value[1])
    /\ UNCHANGED <<locations_param, locations, force_sync, known_locations, connects,
                   files, findmy_data_file, loaded, rerun, connected, pure>>

\* the for loop is exhausted: send_location_data returns; after Items.data
\* comes Devices.data, after Devices.data the table is printed and
\* time.sleep begins (lines 182-196)
Return ==
    /\ pc = "for"
    /\ todo = 0
    /\ IF findmy_data_file = "Items"
       THEN /\ findmy_data_file' = "Devices"
            /\ pc' = "call"
       ELSE /\ pc' = "sleep"
            /\ UNCHANGED findmy_data_file
    /\ UNCHANGED <<exception, locations_param, locations, force_sync, known_locations,
                   device_updates, connects, files, todo, device, device_update, sent,
                   announced, orphan_state, no_fix, published_from, loaded, rerun,
                   connected, last_published, undelivered, first_published, pure>>
    /\ absent' = IF absent = None THEN None ELSE Some([absent[1] EXCEPT !.back = FALSE])

\* the next cycle beginning with an empty device_updates
Wake_ForgetsUpdates ==
    /\ pc = "sleep"
    /\ pc' = "call"
    /\ findmy_data_file' = "Items"
    /\ published_from' = {}
    /\ loaded' = {}
    /\ rerun' = TRUE
    /\ device_updates' = <<>>
    /\ UNCHANGED <<exception, locations_param, locations, force_sync, known_locations,
                   connects, files, todo, device, device_update, sent, announced,
                   orphan_state, no_fix, connected, last_published, observers, pure>>

\* time.sleep returns and the next cycle of `while True` begins
Wake ==
    /\ pc = "sleep"
    /\ pc' = "call"
    /\ findmy_data_file' = "Items"
    /\ published_from' = {}
    /\ loaded' = {}
    /\ rerun' = TRUE
    /\ UNCHANGED <<exception, locations_param, locations, force_sync, known_locations,
                   device_updates, connects, files, todo, device, device_update, sent,
                   announced, orphan_state, no_fix, connected, last_published,
                   undelivered, first_published, pure>>
    /\ absent' =
         IF absent = None THEN None
         ELSE Some([seen |-> FALSE,
                    passes |-> IF absent[1].seen
                                  \/ UpdatesIdentifier(AnyName) \notin DOMAIN last_published
                               THEN 0
                               ELSE IF absent[1].passes < MaxAbsence
                                    THEN absent[1].passes + 1
                                    ELSE MaxAbsence,
                    back |-> FALSE])

\* what the main thread reads and writes
main_thread == <<pc, exception, locations_param, locations, force_sync, known_locations,
                 device_updates, connects, files, findmy_data_file, todo, device,
                 device_update, sent, announced, orphan_state, no_fix, published_from,
                 loaded, rerun, last_published, observers, pure>>

\* The thread that client.loop_start() started (line 56) runs beside the
\* main thread from then on: it loses the connection at any moment ...
BrokerDisconnect ==
    /\ pc \in {"call", "for", "sleep"}
    /\ connected
    /\ connected' = FALSE
    /\ UNCHANGED main_thread

\* a reconnect that empties device_updates, as an on_connect callback
\* asking for everything to be sent again would
BrokerReconnect_ClearsUpdates ==
    /\ pc \in {"call", "for", "sleep"}
    /\ ~connected
    /\ connected' = TRUE
    /\ device_updates' = <<>>
    /\ UNCHANGED <<pc, exception, locations_param, locations, force_sync,
                   known_locations, connects, files, findmy_data_file, todo, device,
                   device_update, sent, announced, orphan_state, no_fix, published_from,
                   loaded, rerun, last_published, observers, pure>>

\* ... and makes it again by itself (reconnect_delay_set, line 54)
BrokerReconnect ==
    /\ pc \in {"call", "for", "sleep"}
    /\ ~connected
    /\ connected' = TRUE
    /\ UNCHANGED main_thread

Next ==
    \/ ValidateParamLocations
    \/ Main
    \/ LoadData
    \/ ForDevice
    \/ Return
    \/ Wake
    \/ BrokerDisconnect
    \/ BrokerReconnect

\* the loop over snapshot files that FindMy keeps rewriting
Spec == Init /\ [][Next]_vars

\* the loop over snapshot files that nothing rewrites
InitUnchanged == Start /\ files \in FixedFiles /\ ObserversOff

SpecUnchanged == InitUnchanged /\ [][Next]_vars

\* the same loop without --force-sync, with one observer switched on
InitDelivery ==
    Start /\ files = ChangingFiles
          /\ ~force_sync
          /\ undelivered = Some({}) /\ absent = None /\ first_published = None

SpecDelivery == InitDelivery /\ [][Next]_vars

InitAbsence ==
    Start /\ files = ChangingFiles
          /\ ~force_sync
          /\ undelivered = None /\ first_published = None
          /\ absent = Some([seen |-> FALSE, passes |-> 0, back |-> FALSE])

SpecAbsence == InitAbsence /\ [][Next]_vars

InitRepeat ==
    Start /\ files = ChangingFiles
          /\ ~force_sync
          /\ undelivered = None /\ absent = None /\ first_published = Some(None)

SpecRepeat == InitRepeat /\ [][Next]_vars

-----------------------------------------------------------------------------
(* The functions applied on their own *)

\* the longest named-location table
MaxZones == 2

\* the longest device name, the two names of NamedExamples apart
MaxNameLen == 3

\* the zone names in the order the file lists them, which is not the
\* alphabetical one
ZoneNames == <<"home", "garden", "work", "school">>

\* zones around (0, 0) and (100, 0), of tolerance -50, 0 and 50
ZoneValues ==
    {Zone(JsonFloat(lat), JsonFloat(0), JsonInt(tol)) :
        lat \in {0, 100}, tol \in {0 - 50, 0, 50}}

\* the --locations option: absent, or a file of at most MaxZones zones
TableParams ==
    {[path |-> "", isfile |-> FALSE, json |-> None]}
    \cup {[path |-> "locations.json", isfile |-> TRUE,
           json |-> Some([type |-> "object",
                          items |-> [k \in DOMAIN zs |->
                                       [name |-> ZoneNames[k], value |-> zs[k]]]])] :
            zs \in SeqsUpTo(ZoneValues, MaxZones)}

\* known_locations as main leaves it (lines 276-277) for an accepted option
KnownLocationsOf(param) ==
    LET r == validate_param_locations(param)
    IN  IF r.value = None THEN <<>> ELSE set_known_locations(r.value[1])

KnownLocationTables ==
    {KnownLocationsOf(param) :
        param \in {x \in TableParams : validate_param_locations(x).raised = ""}}

\* coordinates on and beside the borders of the zones
Points == {<<lat, lon>> : lat \in {0, 50, 51, 71, 170}, lon \in {0, 60, 80}}

\* ASCII characters of every kind line 77 and 78 tell apart
AsciiChars == {"a", "M", "1", " ", "-", "_", "'"}

MaxsIPhone == <<"M", "a", "x", "'", "s", " ", "i", "P", "h", "o", "n", "e">>

MultiSpace == <<" ", " ", "m", "u", "l", "t", "i", " ", " ", " ", "s", "p", "a", "c", "e", " ">>

NamedExamples == {MaxsIPhone, MultiSpace}

AsciiNames == SeqsUpTo(AsciiChars, MaxNameLen) \cup NamedExamples

\* entries with batteryLevel 0, with batteryLevel 1 and without batteryLevel
BatteryEntries ==
    {[RawEntry(keys, n, location) EXCEPT !.batteryLevel = level] :
        keys \in {EntryKeys, EntryKeys \ {"batteryLevel"}},
        n \in Names,
        level \in {0, 1},
        location \in {None} \cup {Some(RawLocation(LocationKeys, PositionAt(t), t)) :
                                    t \in 1..MaxTs}}

Calls ==
    {[fn |-> "get_location_name", kl |-> kl, pos |-> pos] :
        kl \in KnownLocationTables, pos \in Points}
    \cup {[fn |-> "get_device_id", name |-> name] : name \in AsciiNames}
    \cup {[fn |-> "publish_to_mqtt", raw |-> raw] : raw \in BatteryEntries}

InitPure ==
    /\ pc = "pure"
    /\ exception = ""
    /\ locations_param = [path |-> "", isfile |-> FALSE, json |-> None]
    /\ locations = None
    /\ force_sync = FALSE
    /\ known_locations = <<>>
    /\ device_updates = <<>>
    /\ connects = 0
    /\ files = ChangingFiles
    /\ findmy_data_file = "Items"
    /\ todo = 0
    /\ device = None
    /\ device_update = None
    /\ sent = <<>>
    /\ announced = {}
    /\ orphan_state = {}
    /\ no_fix = {}
    /\ published_from = {}
    /\ loaded = {}
    /\ rerun = FALSE
    /\ connected = FALSE
    /\ last_published = <<>>
    /\ ObserversOff
    /\ call \in {Some(c) : c \in Calls}
    /\ result = None

the_process == <<pc, exception, locations_param, locations, force_sync, known_locations,
                 device_updates, connects, files, findmy_data_file, todo, device,
                 device_update, sent, announced, orphan_state, no_fix, published_from,
                 loaded, rerun, connected, last_published, observers>>

Applies(fn) == pc = "pure" /\ result = None /\ call[1].fn = fn

\* get_location_name(pos), known_locations being the table
GetLocationName ==
    /\ Applies("get_location_name")
    /\ result' = Some(get_location_name(call[1].kl, call[1].pos))
    /\ UNCHANGED <<the_process, call>>

\* get_device_id(name)
GetDeviceId ==
    /\ Applies("get_device_id")
    /\ result' = Some(get_device_id(call[1].name))
    /\ UNCHANGED <<the_process, call>>

\* publish_to_mqtt(Device(raw)): [raised, value], value being the messages
PublishToMqtt ==
    /\ Applies("publish_to_mqtt")
    /\ \E r \in {Device(call[1].raw, <<>>)} :
        result' = Some(IF r.raised # "" THEN [raised |-> r.raised, value |-> <<>>]
                       ELSE [raised |-> "", value |-> publish_to_mqtt(r.value[1])])
    /\ UNCHANGED <<the_process, call>>

NextPure ==
    \/ GetLocationName
    \/ GetDeviceId
    \/ PublishToMqtt

SpecPure == InitPure /\ [][NextPure]_vars

-----------------------------------------------------------------------------
(* Properties *)

\* the last iteration built a Device from an entry with a location object
Located == device # None /\ device[1].last_update # None

\* the last iteration built a Device from an entry without a location object
Unlocated == device # None /\ device[1].last_update = None

\* a parse error (a missing key) ended the process
ParseError == pc = "exit" /\ exception = "KeyError"

\* C1: an entry without a location object causes no broker publish, with
\* force_sync true or false and whatever device_updates holds.
C1_NoFixNotPublished == Unlocated => sent = <<>>

\* C2: with force_sync false, a device with a location is published iff
\* device_updates had no entry for its identity or the stored timestamp
\* differs from the entry's; either way the stored timestamp is then the
\* entry's, so that the same timeStamp shown again is not published again.
C2_PublishedIffNew ==
    (~force_sync /\ Located) =>
        /\ sent # <<>> <=> (device_update = None \/ device_update[1][1] # device[1].last_update)
        /\ device[1].updates_identifier \in DOMAIN device_updates
        /\ device_updates[device[1].updates_identifier][1] = device[1].last_update

C2_Witness ==
    /\ ~force_sync /\ Located /\ rerun
    /\ device_update # None
    /\ device_update[1][1] = device[1].last_update
    /\ sent = <<>>

\* both snapshot files are left alone
FilesUnchanged == \A f \in FileNames : files[f] # None

SnapshotEntries == Range(files["Items"][1]) \cup Range(files["Devices"][1])

\* the timeStamp an entry shows, None without a location object
ShownTimeStamp(entry) ==
    IF entry.location = None THEN None ELSE Some(entry.location[1].timeStamp)

\* the entries of the snapshot that share a name show one timeStamp
OneTimeStampPerName ==
    \A e1, e2 \in SnapshotEntries : e1.name = e2.name => ShownTimeStamp(e1) = ShownTimeStamp(e2)

\* C3 as claimed: a pass over unchanged files with force_sync false publishes
\* nothing, whatever the files hold.
C3_RerunPublishesNothing ==
    (FilesUnchanged /\ rerun /\ ~force_sync) => published_from = {}

\* C3, amended: a pass over unchanged files with force_sync false publishes
\* nothing when the entries that share an identity key show one timeStamp.
C3_RerunOfOneTimeStampPerName ==
    (FilesUnchanged /\ rerun /\ ~force_sync /\ OneTimeStampPerName) => published_from = {}

\* a second pass has completed over files that hold one identity twice
C3_Witness ==
    /\ FilesUnchanged /\ rerun /\ ~force_sync /\ OneTimeStampPerName
    /\ pc = "sleep"
    /\ Len(files["Items"][1]) = 1 /\ Len(files["Devices"][1]) = 1
    /\ files["Items"][1][1].name = files["Devices"][1][1].name
    /\ DOMAIN device_updates # {}

\* C4: with force_sync true, every device with a location is published when
\* its entry is processed, whatever timestamp is stored, and its
\* device_updates entry becomes (timeStamp, zone name of its coordinates).
C4_ForceSyncPublishes ==
    (force_sync /\ Located) =>
        /\ Len(sent) = 3
        /\ device[1].updates_identifier \in DOMAIN device_updates
        /\ device_updates[device[1].updates_identifier]
             = <<device[1].last_update,
                 Some(get_location_name(known_locations,
                        <<device[1].latitude[1], device[1].longitude[1]>>).value)>>

C4_Witness ==
    /\ force_sync /\ Located
    /\ device_update # None
    /\ device_update[1][1] = device[1].last_update
    /\ Len(sent) = 3

\* C5: after an entry without a location object is processed, device_updates
\* has no entry for its identity key.
C5_NoFixForgotten ==
    Unlocated => device[1].updates_identifier \notin DOMAIN device_updates

\* C6: with force_sync false, an identity whose last processed entry had no
\* location is published when its next entry with a location is processed.
C6_NoFixDoesNotBlock ==
    [][(/\ pc = "for" /\ pc' = "for" /\ todo' = todo - 1
        /\ ~force_sync
        /\ device'[1].last_update # None
        /\ device'[1].updates_identifier \in no_fix)
       => sent' # <<>>]_vars

C6_Witness ==
    /\ ~force_sync /\ Located /\ rerun
    /\ device_update = Some(<<None, None>>)
    /\ Len(sent) = 3

\* C7: a publish is three messages, config, attributes, state in this order,
\* under homeassistant/device_tracker/{id} of the one device; the state
\* payload is the device's location name, which for a device with a location
\* is the zone of its coordinates; no state message precedes the first config
\* message of its topic prefix.
C7_ThreeMessagesInOrder ==
    /\ orphan_state = {}
    /\ sent # <<>> =>
        /\ device # None
        /\ Len(sent) = 3
        /\ \A k \in 1..3 :
             sent[k].topic = <<"homeassistant", "device_tracker", get_device_id(device[1].name),
                               <<"config", "attributes", "state">>[k]>>
        /\ sent[3].payload = device[1].location_name
        /\ Located =>
             sent[3].payload = Some(get_location_name(known_locations,
                                      <<device[1].latitude[1], device[1].longitude[1]>>).value)

C7_Witness ==
    /\ Located
    /\ Len(sent) = 3
    /\ sent[3].payload = Some("not_home")
    /\ Cardinality(announced) = 2

\* C8: when a parse error aborts the pass of one file, the other file is
\* still loaded in the same cycle.
C8_OtherFileStillLoaded == ParseError => loaded = FileNames

\* C9: when a file has a malformed entry, no device of that file is
\* published in that cycle.
C9_NoPartialPublish == ParseError => findmy_data_file \notin published_from

\* C10: after a malformed entry the sync loop keeps running.
C10_LoopKeepsRunning == exception = "KeyError" => pc \in {"call", "for", "sleep"}

\* the step is one iteration of the for loop that built a Device
IterationStep == pc = "for" /\ pc' = "for" /\ todo' = todo - 1

\* the identity key of the Device the last iteration built
Key == device[1].updates_identifier

\* C11: device_updates records the decision to publish, not the delivery.
\* A step of the network thread that loses or makes the connection leaves
\* device_updates as it was; an iteration that publishes stores the entry's
\* (timeStamp, zone) whether or not the client is connected; and an
\* identity whose last publish met no connection is, with force_sync false,
\* not published again while it shows the stored timestamp, so that it
\* stays undelivered.
C11_DecisionNotDelivery ==
    [][/\ connected' # connected => device_updates' = device_updates
       /\ (IterationStep /\ sent' # <<>>) =>
             /\ Key' \in DOMAIN device_updates'
             /\ device_updates'[Key'] = <<device'[1].last_update, device'[1].location_name>>
       /\ (IterationStep /\ ~force_sync /\ Key' \in undelivered[1]
             /\ device_updates[Key'][1] = device'[1].last_update) =>
             /\ sent' = <<>>
             /\ Key' \in undelivered'[1]
             /\ device_updates' = device_updates]_vars

\* the broker is back, the device shows the timestamp whose publish was
\* lost, and the pass publishes nothing for it
C11_Witness ==
    /\ undelivered # None
    /\ Located
    /\ ~force_sync
    /\ connected
    /\ sent = <<>>
    /\ Key \in undelivered[1]
    /\ device_updates[Key][1] = device[1].last_update

\* get_location_name was applied to a table and a coordinate
Resolved == call # None /\ call[1].fn = "get_location_name" /\ result # None

\* the zone's tolerance in coordinate units, 70 m standing in for 0
ZoneTolerance(zone) == IF zone.tolerance = 0 THEN DEFAULT_TOLERANCE ELSE zone.tolerance

\* latitude and longitude both lie within the zone's tolerance of the point
Contains(zone, pos) ==
    /\ Abs(zone.latitude - pos[1]) <= ZoneTolerance(zone)
    /\ Abs(zone.longitude - pos[2]) <= ZoneTolerance(zone)

\* the positions, in insertion order, of the zones that contain the point
Containing(kl, pos) == {k \in DOMAIN kl : Contains(kl[k], pos)}

Min(S) == CHOOSE x \in S : \A y \in S : x <= y

\* C12: what get_location_name returns is "unknown" for every coordinate
\* when the table is empty (also when no --locations option was given),
\* otherwise the name of the first zone in insertion order whose latitude
\* and longitude both lie within its tolerance of the point, also when
\* several zones contain the point, and "not_home" when no zone does.
C12_FirstZoneInOrder ==
    (Resolved /\ result[1].raised = "") =>
        result[1].value =
            IF call[1].kl = <<>> THEN "unknown"
            ELSE IF Containing(call[1].kl, call[1].pos) = {} THEN "not_home"
            ELSE call[1].kl[Min(Containing(call[1].kl, call[1].pos))].name

\* two zones contain the point and the one listed first is returned
C12_Witness ==
    /\ Resolved
    /\ result[1].raised = ""
    /\ Cardinality(Containing(call[1].kl, call[1].pos)) >= 2
    /\ result[1].value = call[1].kl[1].name

\* C13: zone resolution never fails.  For every table that
\* validate_param_locations accepts (latitude and longitude floats, the
\* tolerance any integer, zero and negative ones too) and every coordinate,
\* get_location_name raises nothing and returns "not_home" or the name of a
\* zone of the table, a zone whose tolerance is not positive being matched
\* with the default of 70 m.
C13_ResolveNeverFails ==
    (Resolved /\ call[1].kl # <<>>) =>
        LET kl == call[1].kl
            pos == call[1].pos
            within70 == {k \in DOMAIN kl :
                           /\ kl[k].tolerance <= 0
                           /\ Abs(kl[k].latitude - pos[1]) <= DEFAULT_TOLERANCE
                           /\ Abs(kl[k].longitude - pos[2]) <= DEFAULT_TOLERANCE}
        IN  /\ result[1].raised = ""
            /\ result[1].value \in {"not_home"} \cup {kl[k].name : k \in DOMAIN kl}
            /\ (within70 # {} /\ \A k \in DOMAIN kl : kl[k].tolerance <= 0) =>
                   result[1].value = kl[Min(within70)].name

\* the --locations option names something that is not a file, not JSON, not
\* a JSON object, or an object with an entry whose latitude or longitude is
\* no float or whose tolerance is no integer
MalformedLocations(param) ==
    /\ param.path # ""
    /\ \/ ~param.isfile
       \/ param.json = None
       \/ param.json[1].type # "object"
       \/ \E k \in DOMAIN param.json[1].items :
            LET location == param.json[1].items[k].value
            IN  \/ location.type # "object"
                \/ location.latitude.type # "float"
                \/ location.longitude.type # "float"
                \/ location.tolerance.type # "int"

\* C14: a malformed named-location file is fatal at startup: the process
\* ends with BadParameter before main runs, so it never connects, reads no
\* snapshot and publishes nothing.
C14_MalformedLocationsFatal ==
    MalformedLocations(locations_param) =>
        /\ pc \in {"cli", "exit"}
        /\ pc = "exit" => exception = "BadParameter"
        /\ connects = 0
        /\ loaded = {}
        /\ sent = <<>>
        /\ announced = {}
        /\ device_updates = <<>>

\* the file is a JSON object with a bad entry and the process has ended
C14_Witness ==
    /\ pc = "exit"
    /\ exception = "BadParameter"
    /\ locations_param.json # None
    /\ locations_param.json[1].type = "object"
    /\ MalformedLocations(locations_param)

\* C15: the process calls connect_broker exactly once, at startup before
\* the first pass: no snapshot is read and nothing is published before that
\* connect, and no pass connects again, whatever the network thread does
\* with the connection meanwhile.
C15_ConnectsOnce ==
    /\ connects <= 1
    /\ pc \in {"call", "for", "sleep"} => connects = 1
    /\ (loaded # {} \/ sent # <<>> \/ announced # {} \/ device_updates # <<>>) =>
           connects = 1

\* a later pass publishes and the one connect is still the only one
C15_Witness == rerun /\ sent # <<>> /\ connects = 1 /\ pc = "for"

\* publish_to_mqtt was applied to the Device built from a raw entry
PublishedEntry == call # None /\ call[1].fn = "publish_to_mqtt" /\ result # None

\* C16: the attributes message contains battery_level exactly when the raw
\* entry has batteryLevel, for every value in [0, 1] including 0; and an
\* entry without batteryLevel parses without error.
C16_BatteryLevelIffPresent ==
    PublishedEntry =>
        /\ result[1].raised = ""
        /\ "battery_level" \in DOMAIN Payload(result[1].value, "attributes")
             <=> "batteryLevel" \in call[1].raw.keys

\* get_device_id was applied to an ASCII name
Derived == call # None /\ call[1].fn = "get_device_id" /\ result # None

\* C17: for ASCII names get_device_id is idempotent; "Max's iPhone" gives
\* "maxs_iphone" and "  multi   space " gives "multi_space"; leading or
\* trailing whitespace of the name leaves no underscore at either end of
\* the id.
C17_DeviceIdExamples ==
    Derived =>
        LET name == call[1].name
            id == result[1]
        IN  /\ get_device_id(id) = id
            /\ name = MaxsIPhone => id = <<"m", "a", "x", "s", "_", "i", "p", "h", "o", "n", "e">>
            /\ name = MultiSpace => id = <<"m", "u", "l", "t", "i", "_", "s", "p", "a", "c", "e">>
            /\ (name # <<>> /\ name[1] \in Whitespace /\ id # <<>>) => id[1] # "_"
            /\ (name # <<>> /\ name[Len(name)] \in Whitespace /\ id # <<>>) => id[Len(id)] # "_"

\* C17 as the code has it: for ASCII names get_device_id is idempotent;
\* "Max's iPhone" gives "maxs_iphone" and "  multi   space " gives
\* "_multi_space_"; runs of whitespace, hyphens and underscores give one
\* underscore, and leading or trailing whitespace of the name leaves one
\* underscore at that end of the id.
C17_DeviceIdCollapses ==
    Derived =>
        LET name == call[1].name
            id == result[1]
        IN  /\ get_device_id(id) = id
            /\ name = MaxsIPhone => id = <<"m", "a", "x", "s", "_", "i", "p", "h", "o", "n", "e">>
            /\ name = MultiSpace =>
                 id = <<"_", "m", "u", "l", "t", "i", "_", "s", "p", "a", "c", "e", "_">>
            /\ \A k \in 1..(Len(id) - 1) : ~(id[k] = "_" /\ id[k + 1] = "_")
            /\ (name # <<>> /\ name[1] \in Whitespace) => id[1] = "_"
            /\ (name # <<>> /\ name[Len(name)] \in Whitespace) => id[Len(id)] = "_"

\* the id of "  multi   space "
C17_Witness ==
    /\ Derived
    /\ call[1].name = MultiSpace
    /\ result[1] = <<"_", "m", "u", "l", "t", "i", "_", "s", "p", "a", "c", "e", "_">>

\* C18: between snapshot entries device_updates has an entry for an
\* identity key exactly when that identity has been published, and the
\* entry is the (timeStamp, zone name) its most recent publish carried;
\* processing one entry changes device_updates at that entry's key only
\* and never changes known_locations.
C18_EntryIsLastPublish ==
    [][/\ device_updates = last_published
       /\ device_updates' = last_published'
       /\ IterationStep =>
            /\ known_locations' = known_locations
            /\ \A k \in (DOMAIN device_updates \cup DOMAIN device_updates') \ {Key'} :
                 /\ k \in DOMAIN device_updates
                 /\ k \in DOMAIN device_updates'
                 /\ device_updates'[k] = device_updates[k]]_vars

\* two identities have been published, and the one processed last was
\* published again in a later pass
C18_Witness ==
    /\ Cardinality(DOMAIN device_updates) = 2
    /\ rerun
    /\ Located
    /\ sent # <<>>
    /\ device_update # None
    /\ device_updates[Key] = <<device[1].last_update, device[1].location_name>>
    /\ device_updates[Key] # device_update[1]

\* C19: a device_updates entry outlives the device's absence from the
\* snapshot.  No step removes an entry of any identity, and an entry
\* changes only in an iteration that publishes; and when the published
\* device that is watched was away for one or more whole passes
\* and comes back with a timeStamp, then with force_sync false it is
\* published again exactly when that timeStamp differs from the one of its
\* last publish.
C19_EntryOutlivesAbsence ==
    [][/\ \A k \in DOMAIN device_updates :
            /\ k \in DOMAIN device_updates'
            /\ device_updates'[k] # device_updates[k] => (IterationStep /\ sent' # <<>>)
       /\ (/\ IterationStep
           /\ ~force_sync
           /\ Located'
           /\ device'[1].name = AnyName
           /\ Key' \in DOMAIN last_published
           /\ absent[1].passes >= 1) =>
             (sent' = <<>> <=> last_published[Key'][1] = device'[1].last_update)]_vars

\* the device is back after MaxAbsence passes without it, shows the
\* timeStamp of its last publish and is not published
C19_Witness ==
    /\ absent # None
    /\ absent[1].back
    /\ ~force_sync
    /\ Located
    /\ sent = <<>>
    /\ last_published[Key][1] = device[1].last_update

\* a step of the thread that client.loop_start() started
NetworkThreadStep == connected' # connected /\ pc \in {"call", "for", "sleep"}

\* Passes follow one another: a file is read only when the loop over the
\* file before it is exhausted, Devices.data only after Items.data, and the
\* sleep is left only after both; and the network thread changes nothing
\* the main thread reads or writes.
PassesInSequence ==
    /\ (pc = "call" /\ pc' = "for") =>
          /\ todo = 0
          /\ findmy_data_file = "Devices" <=> loaded = {"Items"}
          /\ findmy_data_file = "Items" <=> loaded = {}
    /\ (pc = "sleep" /\ pc' = "call") => (loaded = FileNames /\ todo = 0)
    /\ NetworkThreadStep => UNCHANGED main_thread

\* C20 as stated: passes never overlap and the network thread never reads
\* or writes device_updates, so that with force_sync false no identity is
\* published twice for one timestamp (said here only of an identity whose
\* entry before this one had a location too).
C20_NoSecondPublish ==
    [][/\ PassesInSequence
       /\ (IterationStep /\ ~force_sync /\ Located' /\ Key' \notin no_fix /\ sent' # <<>>) =>
             first_published # Some(Some(<<Key', device'[1].last_update>>))]_vars

\* C20 as the code has it: passes never overlap and the network thread
\* never reads or writes device_updates, so that with force_sync false no
\* identity is published twice in a row for one timestamp: between two
\* publishes of an identity for one timestamp lies a publish of it for
\* another.
C20_NoSecondPublishInARow ==
    [][/\ PassesInSequence
       /\ (IterationStep /\ ~force_sync /\ sent' # <<>> /\ Key' \in DOMAIN last_published) =>
             last_published[Key'][1] # device'[1].last_update]_vars

\* the network thread lost the connection during a later pass, in which the
\* identity published first shows the timestamp of that publish again and
\* is not published
C20_Witness ==
    /\ rerun
    /\ pc = "for"
    /\ ~connected
    /\ ~force_sync
    /\ Located
    /\ sent = <<>>
    /\ first_published = Some(Some(<<Key, device[1].last_update>>))

=============================================================================
